---- MODULE Spec2Model ----
(***************************************************************************)
(* Model of the XML conformance-test harness in src/src/main.rs: the       *)
(* release catalogue, manifest deserialization into the two-tier structs,  *)
(* the walk over the manifest, and the per-document event loop that        *)
(* classifies the observed outcome against the expected one.               *)
(*                                                                         *)
(* The file system (manifest files and test documents) is an input fixed   *)
(* in the initial state; fetching and extracting the archives is an        *)
(* external collaborator and is taken to succeed.                          *)
(***************************************************************************)
EXTENDS Naturals, Sequences, FiniteSets, TLC

VARIABLES
    selected,              \* main: selected_releases (indices into RELEASES)
    fs,                    \* the local files: manifests and test documents
    pc,                    \* control point of main and its callees
    ri,                    \* position of for release in selected_releases
    ei,                    \* which of the five if let Some(conf_sub_path) is next
    release_root_path,     \* main: release_root_path
    conf_file_parent_dir,  \* run_*_tests_for: conf_file_parent_dir
    tier_1,                \* run_ibm_tests_for: tier_1
    ni,                    \* position of for test_cases in tier_1.tier_2.iter()
    test_cases,            \* run_test_case_node: test_cases
    ti,                    \* position of for test_case in test_cases.iter()
    file_to_read_path,     \* run_test_case_node: file_to_read_path
    reader,                \* the events test_case_reader will yield
    pos,                   \* how many events have been pulled from reader
    out,                   \* standard output: the diagnostics printed so far
    result,                \* what main has returned ("Running" until it returns)
    attempted,             \* history: entry points tried, with how each ended
    ran,                   \* history: test cases tried, with what was observed
    run,                   \* which execution of the program this is
    out1,                  \* standard output of the previous execution
    result1                \* result of the previous execution

vars == << selected, fs, pc, ri, ei, release_root_path, conf_file_parent_dir,
           tier_1, ni, test_cases, ti, file_to_read_path, reader, pos, out,
           result, attempted, ran, run, out1, result1 >>

----------------------------------------------------------------------------
(* Bounds of the model *)

MaxDepth == 5
MaxChildren == 2
MaxNodeTests == 1
MaxSunTests == 2
MaxEvents == 2

----------------------------------------------------------------------------
(* Option<T> and Result<T, E> *)

None == << >>
Some(x) == << x >>
IsSome(o) == Len(o) = 1
Unwrap(o) == o[1]

Ok(v) == [ok |-> TRUE, val |-> v]
Err(e) == [ok |-> FALSE, val |-> e]

Range(s) == { s[i] : i \in 1..Len(s) }

SeqsUpTo(S, n) == UNION { [1..k -> S] : k \in 0..n }

----------------------------------------------------------------------------
(* Paths: a path is the sequence of its components; "/" first marks an     *)
(* absolute path.                                                          *)

IsAbsolute(p) == Len(p) > 0 /\ p[1] = "/"

\* Path::join: an absolute argument replaces the receiver.
PathJoin(a, b) == IF IsAbsolute(b) THEN b ELSE a \o b

\* Path::parent: None for the empty path and for the root.
PathParent(p) ==
    IF Len(p) = 0 \/ p = << "/" >> THEN None
    ELSE Some(SubSeq(p, 1, Len(p) - 1))

\* Path::file_stem of the archive names of the catalogue.
FileStem(p) ==
    IF Len(p) = 0 \/ p = << "/" >> THEN None
    ELSE LET name == p[Len(p)] IN
         Some(CASE name = "xmlts20031210.zip" -> "xmlts20031210"
                [] name = "xmlts20080205.zip" -> "xmlts20080205"
                [] name = "xmlts20080827.zip" -> "xmlts20080827"
                [] name = "xmlts20130923.zip" -> "xmlts20130923"
                [] OTHER -> name)

curr_dir == << "/", "cwd" >>

----------------------------------------------------------------------------
(* The release catalogue *)

RELEASES == <<
    [ release_date |-> "2003-12-10",
      filename |-> "xmlts20031210.zip",
      sun_valid_tests_conf   |-> Some(<< "sun", "sun-valid.xml" >>),
      sun_invalid_tests_conf |-> Some(<< "sun", "sun-invalid.xml" >>),
      sun_non_wf_tests_conf  |-> Some(<< "sun", "sun-not-wf.xml" >>),
      sun_error_tests_conf   |-> Some(<< "sun", "sun-error.xml" >>),
      ibm_valid_tests_conf   |-> Some(<< "ibm", "ibm_oasis_valid.xml" >>) ],
    [ release_date |-> "2008-02-05",
      filename |-> "xmlts20080205.zip",
      sun_valid_tests_conf   |-> None,
      sun_invalid_tests_conf |-> None,
      sun_non_wf_tests_conf  |-> None,
      sun_error_tests_conf   |-> None,
      ibm_valid_tests_conf   |-> None ],
    [ release_date |-> "2008-08-27",
      filename |-> "xmlts20080827.zip",
      sun_valid_tests_conf   |-> None,
      sun_invalid_tests_conf |-> None,
      sun_non_wf_tests_conf  |-> None,
      sun_error_tests_conf   |-> None,
      ibm_valid_tests_conf   |-> None ],
    [ release_date |-> "2013-09-23",
      filename |-> "xmlts20130923.zip",
      sun_valid_tests_conf   |-> None,
      sun_invalid_tests_conf |-> None,
      sun_non_wf_tests_conf  |-> None,
      sun_error_tests_conf   |-> None,
      ibm_valid_tests_conf   |-> None ] >>

\* The five if let Some(conf_sub_path) = release.X { run_Y_tests_for(..)?; }
\* of main, in program order.
EntryPoints(release) == <<
    [ conf |-> release.sun_valid_tests_conf,   runner |-> "sun" ],
    [ conf |-> release.sun_invalid_tests_conf, runner |-> "sun" ],
    [ conf |-> release.sun_non_wf_tests_conf,  runner |-> "sun" ],
    [ conf |-> release.sun_error_tests_conf,   runner |-> "sun" ],
    [ conf |-> release.ibm_valid_tests_conf,   runner |-> "ibm" ] >>

\* main: zip_file_path, extract_dir_path and release_root_path of a release.
ReleaseRootPath(release) ==
    LET zip_file_path    == PathJoin(curr_dir, << release.filename >>)
        zip_file_parent  == Unwrap(PathParent(zip_file_path))
        extract_dir_name == Unwrap(FileStem(zip_file_path))
        extract_dir_path == PathJoin(zip_file_parent, << extract_dir_name >>)
    IN  PathJoin(extract_dir_path, << "xmlconf" >>)

\* setup_config_file_buf_reader: conf_path
ConfPath(root, conf_sub_path) == PathJoin(root, conf_sub_path)

----------------------------------------------------------------------------
(* Expected outcomes and the two decisions of the event loop *)

TestCaseType == { "valid", "invalid", "not-wf", "error" }

\* The if of the Err(err) arm: a reader error is a mismatch for these.
MismatchOnErr(expected_outcome) ==
    expected_outcome = "valid" \/ expected_outcome = "invalid"

\* Variant of MismatchOnEof: the "error" outcome is forgotten.
MismatchOnEofNotWfOnly(expected_outcome) == expected_outcome = "not-wf"

\* The if of the Ok((_, Event::Eof)) arm: a clean end is a mismatch for these.
MismatchOnEof(expected_outcome) ==
    expected_outcome = "not-wf" \/ expected_outcome = "error"

\* The two println! texts.
GotError(err, test_case) ==
    [ text |-> "Got error / In well formed test", err |-> Some(err), test |-> test_case ]
ParsedNonWf(test_case) ==
    [ text |-> "Parsed non-well formed document / For test", err |-> None, test |-> test_case ]

----------------------------------------------------------------------------
(* Manifest documents on disk.  An element <TESTCASES> is a record         *)
(* [base, tests, children]; a <TEST> is a record [uri, id,                 *)
(* expected_outcome] (the attributes the harness reads).  A file is        *)
(*   "absent"     not on disk,                                             *)
(*   "malformed"  not XML, or a required attribute is missing,             *)
(*   "tests"      the sun shape: <TEST> elements at top level,             *)
(*   "testcases"  the ibm shape: one <TESTCASES> root element.             *)

EmptyNode == [ base |-> None, tests |-> << >>, children |-> << >> ]

Absent == [ kind |-> "absent", root |-> EmptyNode ]
Malformed == [ kind |-> "malformed", root |-> EmptyNode ]
TestsFile(tests) ==
    [ kind |-> "tests", root |-> [ base |-> None, tests |-> tests, children |-> << >> ] ]
TestCasesFile(root) == [ kind |-> "testcases", root |-> root ]

\* #[derive(Deserialize)] struct TestCasesTier2: tests: Vec<TestCase> is a
\* required field, and TESTCASES children are not a field of the struct, so
\* they are skipped.
DeTestCasesTier2(node) ==
    IF node.tests = << >> THEN Err("missing field TEST")
    ELSE Ok([ base |-> node.base, tests |-> node.tests ])

\* #[derive(Deserialize)] struct TestCasesTier1: tests is optional,
\* tier_2: Vec<TestCasesTier2> is required.
DeTestCasesTier1(node) ==
    IF node.children = << >> THEN Err("missing field TESTCASES")
    ELSE IF \E j \in 1..Len(node.children) : ~DeTestCasesTier2(node.children[j]).ok
    THEN Err("missing field TEST")
    ELSE Ok([ base   |-> node.base,
              tests  |-> IF node.tests = << >> THEN None ELSE Some(node.tests),
              tier_2 |-> [ j \in 1..Len(node.children) |->
                             DeTestCasesTier2(node.children[j]).val ] ])

\* run_ibm_tests_for: let tier_1: TestCasesTier1 = from_reader(reader)
FromReaderTier1(content) ==
    IF content.kind = "testcases" THEN DeTestCasesTier1(content.root)
    ELSE Err("malformed manifest")

\* run_sun_tests_for: let test_cases: Vec<TestCase> = from_reader(reader)
FromReaderTestCases(content) ==
    IF content.kind = "tests" THEN Ok(content.root.tests)
    ELSE Err("malformed manifest")

----------------------------------------------------------------------------
(* Test documents on disk: whether the file opens, and the events the      *)
(* reader yields for it.  Past the last listed event the reader is at the  *)
(* end of the input and yields Eof.                                        *)

Events == { "Other", "Err" }

\* One call of read_resolved_event_into after n earlier calls.
ReadEvent(events, n) == IF n + 1 > Len(events) THEN "Eof" ELSE events[n + 1]

NoFile == [ opens |-> FALSE, events |-> << >> ]
Doc(events) == [ opens |-> TRUE, events |-> events ]

DocResults == { NoFile } \cup { Doc(ev) : ev \in SeqsUpTo(Events, MaxEvents) }
BasicResults == { NoFile, Doc(<< >>), Doc(<< "Err" >>) }

----------------------------------------------------------------------------
(* The inputs the model is run on *)

UriT == << "t.xml" >>
UriU == << "u.xml" >>

Test(uri, id, expected_outcome) ==
    [ uri |-> uri, id |-> id, expected_outcome |-> expected_outcome ]

XmlBase == << "x" >>
BaseOpts == { None, Some(XmlBase) }

\* An unlabelled element: its tests carry no id yet.
RawTest == [ uri |-> UriT, expected_outcome |-> "valid" ]
RawTestLists == { [ i \in 1..k |-> RawTest ] : k \in 0..MaxNodeTests }

\* The depth of the two-tier structs.
TierDepth == 2

RECURSIVE Bushy(_)
Bushy(d) ==
    { [ base |-> b, tests |-> ts, children |-> cs ] :
        b \in BaseOpts, ts \in RawTestLists,
        cs \in IF d = 1 THEN { << >> } ELSE SeqsUpTo(Bushy(d - 1), MaxChildren) }

RECURSIVE Chains(_)
Chains(d) ==
    { [ base |-> b, tests |-> << RawTest >>, children |-> cs ] :
        b \in BaseOpts,
        cs \in IF d = 1 THEN { << >> } ELSE { << c >> : c \in Chains(d - 1) } }

RawTrees == Bushy(TierDepth) \cup UNION { Chains(d) : d \in 1..MaxDepth }

\* Give every test the identifier <<position of its element..., its index>>.
RECURSIVE Label(_, _)
Label(node, at) ==
    [ base     |-> node.base,
      tests    |-> [ i \in 1..Len(node.tests) |->
                       Test(node.tests[i].uri, at \o << i >>,
                            node.tests[i].expected_outcome) ],
      children |-> [ j \in 1..Len(node.children) |->
                       Label(node.children[j], at \o << j >>) ] ]

NumEntryPoints == Len(EntryPoints(RELEASES[1]))

\* Every manifest path of the catalogue, with the entry point it belongs to.
ConfKeys ==
    UNION { { [ path   |-> ConfPath(ReleaseRootPath(RELEASES[r]),
                                    Unwrap(EntryPoints(RELEASES[r])[e].conf)),
                entry  |-> e,
                runner |-> EntryPoints(RELEASES[r])[e].runner ] :
              e \in { x \in 1..NumEntryPoints :
                        IsSome(EntryPoints(RELEASES[r])[x].conf) } } :
            r \in 1..Len(RELEASES) }

ConfPaths == { k.path : k \in ConfKeys }
KeyOf(path) == CHOOSE k \in ConfKeys : k.path = path

DocDirs == { Unwrap(PathParent(p)) : p \in ConfPaths } \cup { XmlBase }
DocPaths == { PathJoin(d, u) : d \in DocDirs, u \in { UriT, UriU } }

\* A well-formed manifest of each shape, with one test.
DefaultContent(key) ==
    IF key.runner = "sun"
    THEN TestsFile(<< Test(UriT, << key.entry, 1 >>, "valid") >>)
    ELSE TestCasesFile(Label(
             [ base |-> None, tests |-> << >>,
               children |-> << [ base |-> None, tests |-> << RawTest >>,
                                 children |-> << >> ] >> ],
             << key.entry >>))

EmptyContent(key) ==
    IF key.runner = "sun" THEN TestsFile(<< >>) ELSE DefaultContent(key)

AllDocs(r) == [ p \in DocPaths |-> r ]

\* The releases the operator can select: any sublist of the catalogue.
Selections ==
    { CHOOSE s \in [1..Cardinality(S) -> S] :
          \A i, j \in 1..Cardinality(S) : i < j => s[i] < s[j] :
      S \in SUBSET (1..Len(RELEASES)) }

\* Any selection; each manifest absent, malformed or well-formed.
EntryPointWorlds ==
    { [ selected |-> s,
        conf |-> [ p \in ConfPaths |->
                     CASE c[p] = "absent"    -> Absent
                       [] c[p] = "malformed" -> Malformed
                       [] OTHER              -> DefaultContent(KeyOf(p)) ],
        docs |-> AllDocs(Doc(<< >>)) ] :
      s \in Selections,
      c \in [ ConfPaths -> { "absent", "malformed", "ok" } ] }

SunValidPath == ConfPath(ReleaseRootPath(RELEASES[1]),
                         Unwrap(RELEASES[1].sun_valid_tests_conf))
IbmValidPath == ConfPath(ReleaseRootPath(RELEASES[1]),
                         Unwrap(RELEASES[1].ibm_valid_tests_conf))

SunTestLists ==
    UNION { { [ i \in 1..k |->
                  Test(IF i % 2 = 1 THEN UriT ELSE UriU,
                       << KeyOf(SunValidPath).entry, i >>, ty[i]) ] :
              ty \in [ 1..k -> TestCaseType ] } :
            k \in 0..MaxSunTests }

\* The first sun manifest lists tests of every expected outcome, over
\* documents of every kind.
ClassifierWorlds ==
    { [ selected |-> << 1 >>,
        conf |-> [ p \in ConfPaths |->
                     IF p = SunValidPath THEN TestsFile(l)
                     ELSE DefaultContent(KeyOf(p)) ],
        docs |-> [ p \in DocPaths |->
                     CASE p = PathJoin(Unwrap(PathParent(SunValidPath)), UriT) -> rt
                       [] p = PathJoin(Unwrap(PathParent(SunValidPath)), UriU) -> ru
                       [] OTHER -> Doc(<< >>) ] ] :
      l \in SunTestLists, rt \in DocResults, ru \in BasicResults }

\* The ibm manifest is a tree of any of the generated shapes.
TreeWorlds ==
    { [ selected |-> << 1 >>,
        conf |-> [ p \in ConfPaths |->
                     IF p = IbmValidPath
                     THEN TestCasesFile(Label(t, << KeyOf(p).entry >>))
                     ELSE EmptyContent(KeyOf(p)) ],
        docs |-> AllDocs(r) ] :
      t \in RawTrees, r \in BasicResults }

Worlds == EntryPointWorlds \cup ClassifierWorlds \cup TreeWorlds

----------------------------------------------------------------------------
(* The program *)

NoTier1 == [ base |-> None, tests |-> None, tier_2 |-> << >> ]

Init ==
    /\ \E w \in Worlds :
         /\ selected = w.selected
         /\ fs = [ conf |-> w.conf, docs |-> w.docs ]
    /\ pc = "main"
    /\ ri = 1
    /\ ei = 1
    /\ release_root_path = << >>
    /\ conf_file_parent_dir = << >>
    /\ tier_1 = NoTier1
    /\ ni = 1
    /\ test_cases = << >>
    /\ ti = 1
    /\ file_to_read_path = << >>
    /\ reader = << >>
    /\ pos = 0
    /\ out = << >>
    /\ result = "Running"
    /\ attempted = << >>
    /\ ran = << >>
    /\ run = 1
    /\ out1 = << >>
    /\ result1 = "Running"

release == RELEASES[selected[ri]]
entry_point == EntryPoints(release)[ei]
conf_path == ConfPath(release_root_path, Unwrap(entry_point.conf))
test_case == test_cases[ti]

prev_run == << run, out1, result1 >>
inputs == << selected, fs >>

\* History bookkeeping: how the entry point being tried has ended, and what
\* has been seen of the test case being tried.
Ended(how) ==
    [ attempted EXCEPT ![Len(attempted)] = [ @ EXCEPT !.status = how ] ]
Seen(pulled, observed) ==
    [ ran EXCEPT ![Len(ran)] =
        [ @ EXCEPT !.pulled = pulled, !.observed = observed ] ]

\* main, lines 150-168: the next selected release; fetching and extracting
\* its archive is taken to succeed.
StartRelease ==
    /\ pc = "main"
    /\ ri <= Len(selected)
    /\ release_root_path' = ReleaseRootPath(release)
    /\ ei' = 1
    /\ pc' = "entry"
    /\ UNCHANGED << ri, conf_file_parent_dir, tier_1, ni, test_cases, ti,
                    file_to_read_path, reader, pos, out, result, attempted,
                    ran, inputs, prev_run >>

\* main, line 186: Ok(()) after the last selected release.
MainOk ==
    /\ pc = "main"
    /\ ri > Len(selected)
    /\ pc' = "done"
    /\ result' = "Ok"
    /\ UNCHANGED << ri, ei, release_root_path, conf_file_parent_dir, tier_1,
                    ni, test_cases, ti, file_to_read_path, reader, pos, out,
                    attempted, ran, inputs, prev_run >>

\* main, lines 169-183: an entry point the release does not have.
SkipEntryPoint ==
    /\ pc = "entry"
    /\ ei <= NumEntryPoints
    /\ ~IsSome(entry_point.conf)
    /\ ei' = ei + 1
    /\ UNCHANGED << pc, ri, release_root_path, conf_file_parent_dir, tier_1,
                    ni, test_cases, ti, file_to_read_path, reader, pos, out,
                    result, attempted, ran, inputs, prev_run >>

\* main, line 184: the end of the loop body.
EndRelease ==
    /\ pc = "entry"
    /\ ei > NumEntryPoints
    /\ ri' = ri + 1
    /\ pc' = "main"
    /\ UNCHANGED << ei, release_root_path, conf_file_parent_dir, tier_1, ni,
                    test_cases, ti, file_to_read_path, reader, pos, out,
                    result, attempted, ran, inputs, prev_run >>

\* What from_reader makes of the manifest of the entry point.
Deserialized ==
    IF entry_point.runner = "sun"
    THEN FromReaderTestCases(fs.conf[conf_path])
    ELSE FromReaderTier1(fs.conf[conf_path])

CanLoad ==
    /\ pc = "entry"
    /\ ei <= NumEntryPoints
    /\ IsSome(entry_point.conf)

Attempt(how) == Append(attempted, [ conf |-> conf_path, status |-> how ])

\* setup_config_file_buf_reader, line 234: File::open fails; the ? of lines
\* 190/199 and of main (lines 170-182) return the error from main.
ConfOpenFails ==
    /\ CanLoad
    /\ fs.conf[conf_path].kind = "absent"
    /\ pc' = "done"
    /\ result' = "Err(File::open)"
    /\ attempted' = Attempt("absent")
    /\ UNCHANGED << ri, ei, release_root_path, conf_file_parent_dir, tier_1,
                    ni, test_cases, ti, file_to_read_path, reader, pos, out,
                    ran, inputs, prev_run >>

\* Lines 191/200: from_reader fails; the ? returns the error from main.
FromReaderFails ==
    /\ CanLoad
    /\ fs.conf[conf_path].kind # "absent"
    /\ ~Deserialized.ok
    /\ pc' = "done"
    /\ result' = "Err(from_reader)"
    /\ attempted' = Attempt("deserialize")
    /\ UNCHANGED << ri, ei, release_root_path, conf_file_parent_dir, tier_1,
                    ni, test_cases, ti, file_to_read_path, reader, pos, out,
                    ran, inputs, prev_run >>

\* run_sun_tests_for, lines 199-201: the list is handed to run_test_case_node.
LoadSun ==
    /\ CanLoad
    /\ entry_point.runner = "sun"
    /\ fs.conf[conf_path].kind # "absent"
    /\ Deserialized.ok
    /\ conf_file_parent_dir' = Unwrap(PathParent(conf_path))
    /\ test_cases' = Deserialized.val
    /\ ti' = 1
    /\ pc' = "tests"
    /\ attempted' = Attempt("running")
    /\ UNCHANGED << ri, ei, release_root_path, tier_1, ni, file_to_read_path,
                    reader, pos, out, result, ran, inputs, prev_run >>

\* run_ibm_tests_for, lines 190-191.
LoadIbm ==
    /\ CanLoad
    /\ entry_point.runner = "ibm"
    /\ fs.conf[conf_path].kind # "absent"
    /\ Deserialized.ok
    /\ conf_file_parent_dir' = Unwrap(PathParent(conf_path))
    /\ tier_1' = Deserialized.val
    /\ ni' = 1
    /\ pc' = "tier_2"
    /\ attempted' = Attempt("running")
    /\ UNCHANGED << ri, ei, release_root_path, test_cases, ti,
                    file_to_read_path, reader, pos, out, result, ran, inputs,
                    prev_run >>

\* run_ibm_tests_for, lines 192-193: the tests of the next tier-2 node are
\* handed to run_test_case_node, with the directory of the manifest.
NextTier2Node ==
    /\ pc = "tier_2"
    /\ ni <= Len(tier_1.tier_2)
    /\ test_cases' = tier_1.tier_2[ni].tests
    /\ ti' = 1
    /\ pc' = "tests"
    /\ UNCHANGED << ri, ei, release_root_path, conf_file_parent_dir, tier_1,
                    ni, file_to_read_path, reader, pos, out, result,
                    attempted, ran, inputs, prev_run >>

\* run_ibm_tests_for, line 195: Ok(()), and main goes on after line 182.
IbmOk ==
    /\ pc = "tier_2"
    /\ ni > Len(tier_1.tier_2)
    /\ attempted' = Ended("ok")
    /\ ei' = ei + 1
    /\ pc' = "entry"
    /\ UNCHANGED << ri, release_root_path, conf_file_parent_dir, tier_1, ni,
                    test_cases, ti, file_to_read_path, reader, pos, out,
                    result, ran, inputs, prev_run >>

\* run_test_case_node, line 229, called from line 193.
Tier2NodeDone ==
    /\ pc = "tests"
    /\ ti > Len(test_cases)
    /\ entry_point.runner = "ibm"
    /\ ni' = ni + 1
    /\ pc' = "tier_2"
    /\ UNCHANGED << ri, ei, release_root_path, conf_file_parent_dir, tier_1,
                    test_cases, ti, file_to_read_path, reader, pos, out,
                    result, attempted, ran, inputs, prev_run >>

\* run_test_case_node, line 229, called from line 201; run_sun_tests_for
\* returns Ok(()) and main goes on.
SunOk ==
    /\ pc = "tests"
    /\ ti > Len(test_cases)
    /\ entry_point.runner = "sun"
    /\ attempted' = Ended("ok")
    /\ ei' = ei + 1
    /\ pc' = "entry"
    /\ UNCHANGED << ri, release_root_path, conf_file_parent_dir, tier_1, ni,
                    test_cases, ti, file_to_read_path, reader, pos, out,
                    result, ran, inputs, prev_run >>

\* run_test_case_node, line 207
FileToReadPath == PathJoin(conf_file_parent_dir, test_case.uri)

Try(opened) ==
    Append(ran, [ conf |-> attempted[Len(attempted)].conf, test |-> test_case,
                  path |-> FileToReadPath, opened |-> opened, pulled |-> 0,
                  observed |-> "none" ])

\* run_test_case_node, line 208: NsReader::from_file fails and the ? returns
\* the error, through run_*_tests_for, from main.
DocOpenFails ==
    /\ pc = "tests"
    /\ ti <= Len(test_cases)
    /\ ~fs.docs[FileToReadPath].opens
    /\ file_to_read_path' = FileToReadPath
    /\ pc' = "done"
    /\ result' = "Err(NsReader::from_file)"
    /\ ran' = Try(FALSE)
    /\ attempted' = Ended("open_doc")
    /\ UNCHANGED << ri, ei, release_root_path, conf_file_parent_dir, tier_1,
                    ni, test_cases, ti, reader, pos, out, inputs, prev_run >>

\* run_test_case_node, lines 207-209: the document opens.
DocOpens ==
    /\ pc = "tests"
    /\ ti <= Len(test_cases)
    /\ fs.docs[FileToReadPath].opens
    /\ file_to_read_path' = FileToReadPath
    /\ reader' = fs.docs[FileToReadPath].events
    /\ pos' = 0
    /\ pc' = "loop"
    /\ ran' = Try(TRUE)
    /\ UNCHANGED << ri, ei, release_root_path, conf_file_parent_dir, tier_1,
                    ni, test_cases, ti, out, result, attempted, inputs,
                    prev_run >>

\* Lines 211-212 and 225: any other event is dropped and the loop goes on.
PullOther ==
    /\ pc = "loop"
    /\ ReadEvent(reader, pos) = "Other"
    /\ pos' = pos + 1
    /\ ran' = Seen(pos + 1, "none")
    /\ UNCHANGED << pc, ri, ei, release_root_path, conf_file_parent_dir,
                    tier_1, ni, test_cases, ti, file_to_read_path, reader,
                    out, result, attempted, inputs, prev_run >>

\* Variant of PullErr: the reader error is returned with ?, as the open
\* error of line 208 is.
PullErrReturns ==
    /\ pc = "loop"
    /\ ReadEvent(reader, pos) = "Err"
    /\ pos' = pos + 1
    /\ ran' = Seen(pos + 1, "Err")
    /\ pc' = "done"
    /\ result' = "Err(read_resolved_event_into)"
    /\ UNCHANGED << ri, ei, release_root_path, conf_file_parent_dir, tier_1,
                    ni, test_cases, ti, file_to_read_path, reader, out,
                    attempted, inputs, prev_run >>

\* Variant of PullErr: the break of line 217 is missing.
PullErrNoBreak ==
    /\ pc = "loop"
    /\ ReadEvent(reader, pos) = "Err"
    /\ pos' = pos + 1
    /\ out' = IF MismatchOnErr(test_case.expected_outcome)
              THEN Append(out, GotError("Err", test_case)) ELSE out
    /\ ran' = Seen(pos + 1, "Err")
    /\ UNCHANGED << pc, ri, ei, release_root_path, conf_file_parent_dir,
                    tier_1, ni, test_cases, ti, file_to_read_path, reader,
                    result, attempted, inputs, prev_run >>

\* Lines 213-218: the reader fails; print on a mismatch, leave the loop.
PullErr ==
    /\ pc = "loop"
    /\ ReadEvent(reader, pos) = "Err"
    /\ pos' = pos + 1
    /\ out' = IF MismatchOnErr(test_case.expected_outcome)
              THEN Append(out, GotError("Err", test_case)) ELSE out
    /\ ran' = Seen(pos + 1, "Err")
    /\ ti' = ti + 1
    /\ pc' = "tests"
    /\ UNCHANGED << ri, ei, release_root_path, conf_file_parent_dir, tier_1,
                    ni, test_cases, file_to_read_path, reader, result,
                    attempted, inputs, prev_run >>

\* Variant of PullEof: a mismatch reported by an earlier execution is
\* remembered and not printed again.
PullEofSkipsReported ==
    /\ pc = "loop"
    /\ ReadEvent(reader, pos) = "Eof"
    /\ pos' = pos + 1
    /\ out' = IF /\ MismatchOnEof(test_case.expected_outcome)
                 /\ ParsedNonWf(test_case) \notin Range(out1)
              THEN Append(out, ParsedNonWf(test_case)) ELSE out
    /\ ran' = Seen(pos + 1, "Eof")
    /\ ti' = ti + 1
    /\ pc' = "tests"
    /\ UNCHANGED << ri, ei, release_root_path, conf_file_parent_dir, tier_1,
                    ni, test_cases, file_to_read_path, reader, result,
                    attempted, inputs, prev_run >>

\* Lines 219-224: the end of the document; print on a mismatch, leave the loop.
PullEof ==
    /\ pc = "loop"
    /\ ReadEvent(reader, pos) = "Eof"
    /\ pos' = pos + 1
    /\ out' = IF MismatchOnEof(test_case.expected_outcome)
              THEN Append(out, ParsedNonWf(test_case)) ELSE out
    /\ ran' = Seen(pos + 1, "Eof")
    /\ ti' = ti + 1
    /\ pc' = "tests"
    /\ UNCHANGED << ri, ei, release_root_path, conf_file_parent_dir, tier_1,
                    ni, test_cases, file_to_read_path, reader, result,
                    attempted, inputs, prev_run >>

\* The program is started again over the same files and the same selection.
Rerun ==
    /\ pc = "done"
    /\ run = 1
    /\ run' = 2
    /\ out1' = out
    /\ result1' = result
    /\ pc' = "main"
    /\ ri' = 1
    /\ ei' = 1
    /\ release_root_path' = << >>
    /\ conf_file_parent_dir' = << >>
    /\ tier_1' = NoTier1
    /\ ni' = 1
    /\ test_cases' = << >>
    /\ ti' = 1
    /\ file_to_read_path' = << >>
    /\ reader' = << >>
    /\ pos' = 0
    /\ out' = << >>
    /\ result' = "Running"
    /\ attempted' = << >>
    /\ ran' = << >>
    /\ UNCHANGED inputs

Next ==
    \/ StartRelease
    \/ MainOk
    \/ SkipEntryPoint
    \/ EndRelease
    \/ ConfOpenFails
    \/ FromReaderFails
    \/ LoadSun
    \/ LoadIbm
    \/ NextTier2Node
    \/ IbmOk
    \/ Tier2NodeDone
    \/ SunOk
    \/ DocOpenFails
    \/ DocOpens
    \/ PullOther
    \/ PullErr
    \/ PullEof

Spec == Init /\ [][Next]_vars

NextRerun == Next \/ Rerun

SpecRerun == Init /\ [][NextRerun]_vars

----------------------------------------------------------------------------
(* What the specification says of a manifest: the effective base of each   *)
(* node and the depth-first order of its test cases.                       *)

RECURSIVE Concat(_)
Concat(ss) == IF ss = << >> THEN << >> ELSE Head(ss) \o Concat(Tail(ss))

EffectiveBase(node, parent_base) ==
    IF IsSome(node.base) THEN Unwrap(node.base) ELSE parent_base

\* The (effective base, test case) pairs of a manifest, depth first: at each
\* node its direct test cases, then each nested node in order.
RECURSIVE Resolved(_, _, _)
Resolved(node, parent_base, depth) ==
    LET base == EffectiveBase(node, parent_base) IN
    [ i \in 1..Len(node.tests) |->
        [ base |-> base, test |-> node.tests[i], depth |-> depth ] ]
    \o Concat([ j \in 1..Len(node.children) |->
                  Resolved(node.children[j], base, depth + 1) ])

\* The same for the manifest file at a path; the parent base of the root is
\* the directory of the file.
Documented(path) ==
    Resolved(fs.conf[path].root, Unwrap(PathParent(path)), 1)

Loads(path) == fs.conf[path].kind \in { "tests", "testcases" }

DiagsFor(test) == Cardinality({ i \in 1..Len(out) : out[i].test = test })

RanFor(path) == SelectSeq(ran, LAMBDA r : r.conf = path)

MismatchTable ==
    { << "valid", "Err" >>, << "invalid", "Err" >>,
      << "not-wf", "Eof" >>, << "error", "Eof" >> }

\* How many events are pulled from a document up to and including the first
\* reader error or end of document.
FirstTerminal(events) ==
    CHOOSE n \in 1..(Len(events) + 1) :
        /\ ReadEvent(events, n - 1) # "Other"
        /\ \A m \in 1..(n - 1) : ReadEvent(events, m - 1) = "Other"

----------------------------------------------------------------------------
(* C1: for every test case whose document opens, with expected outcome e   *)
(* and observed result o (reader error, or end of document), exactly one   *)
(* MISMATCH diagnostic has been printed for it when (e, o) is in the       *)
(* table valid/error, invalid/error, not-wf/end, error/end, and none       *)
(* otherwise, whatever test cases came before it.                          *)
C1_ClassifierTable ==
    \A k \in 1..Len(ran) :
        (ran[k].opened /\ ran[k].observed # "none") =>
            DiagsFor(ran[k].test) =
                IF << ran[k].test.expected_outcome, ran[k].observed >>
                       \in MismatchTable
                THEN 1 ELSE 0

\* An "error" test that reached the end of its document and was reported,
\* after an earlier test case of the same run that was not.
C1_Witness ==
    \E k \in 2..Len(ran) :
        /\ ran[k].test.expected_outcome = "error"
        /\ ran[k].observed = "Eof"
        /\ DiagsFor(ran[k].test) = 1
        /\ ran[k - 1].observed = "Err"
        /\ DiagsFor(ran[k - 1].test) = 0

(* C2: the document path opened for a test case is the effective base of   *)
(* its enclosing node joined with its URI, where the effective base of a   *)
(* node is its own override if it has one and else that of its parent, and *)
(* the parent base of the root is the directory of the manifest file.      *)
C2_ResolvedPath ==
    \A k \in 1..Len(ran) :
        \A i \in 1..Len(Documented(ran[k].conf)) :
            Documented(ran[k].conf)[i].test = ran[k].test =>
                ran[k].path = PathJoin(Documented(ran[k].conf)[i].base,
                                       ran[k].test.uri)

(* C3: when the document of test case i fails to open, main does not       *)
(* return: the runner goes on to test case i+1 of the same list.           *)
C3_OpenFailureContinues ==
    [][ (/\ pc = "tests"
         /\ ti <= Len(test_cases)
         /\ ~fs.docs[FileToReadPath].opens)
        => (/\ result' = "Running"
            /\ pc' = "tests"
            /\ ti' = ti + 1
            /\ test_cases' = test_cases) ]_vars

(* C4: when the manifest of an entry point is absent or cannot be          *)
(* deserialized, main does not return: it goes on to the next entry point  *)
(* of the same release.                                                    *)
C4_EntryPointFailureContinues ==
    [][ (/\ CanLoad
         /\ (fs.conf[conf_path].kind = "absent" \/ ~Deserialized.ok))
        => (/\ result' = "Running"
            /\ pc' = "entry"
            /\ ei' = ei + 1
            /\ ri' = ri) ]_vars

(* C5: once an entry point whose manifest loads has been processed, the    *)
(* test cases run for it are exactly the test cases of the manifest tree,  *)
(* each once, in depth-first document order.                               *)
C5_EveryTestOnceInOrder ==
    \A a \in 1..Len(attempted) :
        attempted[a].status = "ok" =>
            [ i \in 1..Len(RanFor(attempted[a].conf)) |->
                RanFor(attempted[a].conf)[i].test ]
            = [ i \in 1..Len(Documented(attempted[a].conf)) |->
                  Documented(attempted[a].conf)[i].test ]

(* C6: once an entry point whose manifest loads has been processed, every  *)
(* test case below the second level of its tree (the depths up to MaxDepth *)
(* are generated) has been run.                                            *)
C6_DeepTestsRun ==
    \A a \in 1..Len(attempted) :
        attempted[a].status = "ok" =>
            \A i \in 1..Len(Documented(attempted[a].conf)) :
                Documented(attempted[a].conf)[i].depth > TierDepth =>
                    \E k \in 1..Len(ran) :
                        ran[k].test = Documented(attempted[a].conf)[i].test

(* C7: when the reader fails on test case i, or a mismatch is printed for  *)
(* it, main does not return an error and the runner is at test case i+1 of *)
(* the same list; and a runner at a test case of its list tries that test  *)
(* case next.                                                              *)
C7_ReaderErrorNotFatal ==
    [][ /\ ((pc = "loop" /\ (ReadEvent(reader, pos) = "Err" \/ out' # out))
            => (/\ result' = "Running"
                /\ pc' = "tests"
                /\ ti' = ti + 1
                /\ test_cases' = test_cases))
        /\ ((pc = "tests" /\ ti <= Len(test_cases))
            => (/\ Len(ran') = Len(ran) + 1
                /\ ran'[Len(ran')].test = test_cases[ti])) ]_vars

\* A reader error that was reported as a mismatch, and the next test case of
\* the same manifest tried after it.
C7_Witness ==
    \E k \in 1..(Len(ran) - 1) :
        /\ ran[k].observed = "Err"
        /\ DiagsFor(ran[k].test) = 1
        /\ ran[k + 1].conf = ran[k].conf
        /\ ran[k + 1].opened
        /\ result = "Running"

(* C8: an entry point whose manifest is a node with no direct test cases   *)
(* and no nested nodes does not end in an error, runs no test case and     *)
(* prints nothing.                                                         *)
C8_EmptyNodeIsNotAnError ==
    \A a \in 1..Len(attempted) :
        (/\ Loads(attempted[a].conf)
         /\ fs.conf[attempted[a].conf].root.tests = << >>
         /\ fs.conf[attempted[a].conf].root.children = << >>)
        => (/\ attempted[a].status \in { "running", "ok" }
            /\ RanFor(attempted[a].conf) = << >>)

C10_StopsAtFirstTerminal ==
    \A k \in 1..Len(ran) :
        ran[k].opened =>
            /\ ran[k].pulled <= FirstTerminal(fs.docs[ran[k].path].events)
            /\ ran[k].observed # "none" =>
                   ran[k].pulled = FirstTerminal(fs.docs[ran[k].path].events)
            /\ ran[k].observed = "none" => DiagsFor(ran[k].test) = 0
            /\ DiagsFor(ran[k].test) <= 1

\* A document whose reader fails and would fail again: one pull after the
\* discarded event, one diagnostic, and the runner has moved on.
C10_Witness ==
    \E k \in 1..(Len(ran) - 1) :
        /\ fs.docs[ran[k].path].events = << "Err", "Err" >>
        /\ ran[k].observed = "Err"
        /\ ran[k].pulled = 1
        /\ DiagsFor(ran[k].test) = 1

====
